---- MODULE Spec2Model ----
(***************************************************************************)
(* A model of go-cli-flag (src/main.go): a command line tool that parses   *)
(* a sub-command, sends one GET request to the GitHub search API, decodes  *)
(* the JSON answer and prints one field of every item.                     *)
(*                                                                         *)
(* Text that the program inspects character by character (arguments, URL   *)
(* queries, JSON member names) is a sequence of one-character strings.     *)
(* Text that is only copied (extracted values, printed lines) is a string. *)
(***************************************************************************)
EXTENDS Integers, Sequences, FiniteSets, TLC

VARIABLES
    osArgs,     \* os.Args: the program name followed by the arguments
    debug,      \* *debug, the value of the top level -debug flag
    pc,         \* the position of the run
    flagArgs,   \* flag.Args(): what flag.Parse left over
    kind,       \* which search runs: "repos", "users" or "none"
    term,       \* searchTerm, as passed to findRepos / findUsers
    rawQuery,   \* req.URL.RawQuery of the request sent
    httpCalls,  \* how often http.DefaultClient.Do was called
    res,        \* what http.DefaultClient.Do returned
    ret,        \* what findRepos / findUsers returned
    stdout,     \* the lines written to standard output
    stderr,     \* the lines written to standard error
    cmdErr,     \* the error executeCommand returns to main, "" for nil
    exitCode    \* the exit status, once pc is "exited"

vars == <<osArgs, debug, pc, flagArgs, kind, term, rawQuery, httpCalls,
          res, ret, stdout, stderr, cmdErr, exitCode>>

(***************************************************************************)
(* Bounds of the model.                                                    *)
(***************************************************************************)
MaxArgs == 3
MaxItems == 2
MaxTermLen == 4

SeqsUpTo(S, n) == UNION {[1..k -> S] : k \in 0..n}

RECURSIVE Str(_)
\* The string a sequence of characters spells.
Str(s) == IF s = <<>> THEN "" ELSE Head(s) \o Str(Tail(s))

RECURSIVE JoinWith(_, _)
\* strings.Join(parts, sep)
JoinWith(parts, sep) ==
    IF parts = <<>> THEN ""
    ELSE IF Len(parts) = 1 THEN parts[1]
    ELSE parts[1] \o sep \o JoinWith(Tail(parts), sep)

RECURSIVE MapStr(_)
MapStr(ss) == IF ss = <<>> THEN <<>> ELSE <<Str(Head(ss))>> \o MapStr(Tail(ss))

\* fmt's %v and %s of a []string: the elements between brackets.
FmtSlice(ss) == "[" \o JoinWith(MapStr(ss), " ") \o "]"

(***************************************************************************)
(* net/url: the query of the request (src/main.go 128-130, 178-180).       *)
(***************************************************************************)
HexDigits == <<"0","1","2","3","4","5","6","7","8","9","A","B","C","D","E","F">>

\* The ASCII codes of the characters the model's search terms are made of.
AsciiChars == {" ", "%", "&", "+", "-", "=", "a", "q"}
AsciiCode(c) ==
    CASE c = " " -> 32 [] c = "%" -> 37 [] c = "&" -> 38 [] c = "+" -> 43
      [] c = "-" -> 45 [] c = "=" -> 61 [] c = "a" -> 97 [] c = "q" -> 113
      [] OTHER -> 63

\* url.shouldEscape in mode encodeQueryComponent: letters, digits and
\* '-', '_', '.', '~' are kept, everything else is escaped.
Lowers == <<"a","b","c","d","e","f","g","h","i","j","k","l","m",
           "n","o","p","q","r","s","t","u","v","w","x","y","z">>
Uppers == <<"A","B","C","D","E","F","G","H","I","J","K","L","M",
           "N","O","P","Q","R","S","T","U","V","W","X","Y","Z">>
Digits == {"0","1","2","3","4","5","6","7","8","9"}
Letters == {Lowers[i] : i \in 1..Len(Lowers)} \cup {Uppers[i] : i \in 1..Len(Uppers)}
Unreserved == Letters \cup Digits \cup {"-", "_", ".", "~"}
shouldEscape(c) == c \notin Unreserved

QueryEscape_Identity(s) == s

RECURSIVE QueryEscape(_)
\* url.QueryEscape: a space becomes '+', an escaped byte becomes %XX.
QueryEscape(s) ==
    IF s = <<>> THEN <<>>
    ELSE LET c == Head(s)
             e == IF c = " " THEN <<"+">>
                  ELSE IF shouldEscape(c)
                       THEN <<"%", HexDigits[(AsciiCode(c) \div 16) + 1],
                                   HexDigits[(AsciiCode(c) % 16) + 1]>>
                       ELSE <<c>>
         IN e \o QueryEscape(Tail(s))

HexVal(h) == IF \E i \in 1..16 : HexDigits[i] = h
             THEN (CHOOSE i \in 1..16 : HexDigits[i] = h) - 1
             ELSE -1

CharOfCode(n) == IF \E c \in AsciiChars : AsciiCode(c) = n
                 THEN CHOOSE c \in AsciiChars : AsciiCode(c) = n
                 ELSE "?"

RECURSIVE QueryUnescape(_)
\* url.QueryUnescape: '+' is a space, %XX is the byte XX.  ok is FALSE for
\* a '%' that two hexadecimal digits do not follow.
QueryUnescape(s) ==
    IF s = <<>> THEN [ok |-> TRUE, s |-> <<>>]
    ELSE IF Head(s) = "%"
    THEN IF Len(s) < 3 \/ HexVal(s[2]) < 0 \/ HexVal(s[3]) < 0
         THEN [ok |-> FALSE, s |-> <<>>]
         ELSE LET r == QueryUnescape(SubSeq(s, 4, Len(s)))
              IN [ok |-> r.ok,
                  s |-> <<CharOfCode(HexVal(s[2]) * 16 + HexVal(s[3]))>> \o r.s]
    ELSE LET r == QueryUnescape(Tail(s))
         IN [ok |-> r.ok,
             s |-> <<IF Head(s) = "+" THEN " " ELSE Head(s)>> \o r.s]

\* The index of the first c in s, 0 when there is none.
IndexOf(s, c) == IF \E i \in 1..Len(s) : s[i] = c
                 THEN CHOOSE i \in 1..Len(s) :
                          s[i] = c /\ \A j \in 1..(i - 1) : s[j] # c
                 ELSE 0

RECURSIVE ParseQuery(_)
\* url.ParseQuery, which URL.Query() applies to RawQuery: the parameters in
\* order, each a pair of unescaped key and value.  Pieces are separated by
\* '&', key and value by the first '='; a piece that does not unescape is
\* dropped.
ParseQuery(q) ==
    IF q = <<>> THEN <<>>
    ELSE LET amp   == IndexOf(q, "&")
             piece == IF amp = 0 THEN q ELSE SubSeq(q, 1, amp - 1)
             rest  == IF amp = 0 THEN <<>> ELSE SubSeq(q, amp + 1, Len(q))
             eq    == IndexOf(piece, "=")
             k     == QueryUnescape(IF eq = 0 THEN piece
                                    ELSE SubSeq(piece, 1, eq - 1))
             v     == QueryUnescape(IF eq = 0 THEN <<>>
                                    ELSE SubSeq(piece, eq + 1, Len(piece)))
         IN IF piece = <<>> \/ ~k.ok \/ ~v.ok
            THEN ParseQuery(rest)
            ELSE <<[key |-> k.s, val |-> v.s]>> \o ParseQuery(rest)

\* url.Values.Set: the key's values are replaced by the one value.
ValuesSet(values, k, v) ==
    SelectSeq(values, LAMBDA p : p.key # k) \o <<[key |-> k, val |-> v]>>

RECURSIVE ValuesEncode(_)
\* url.Values.Encode: key=value pieces joined by '&', both escaped.  (With
\* one key its sorting of the keys changes nothing.)
ValuesEncode(values) ==
    IF values = <<>> THEN <<>>
    ELSE LET p == Head(values)
             piece == QueryEscape(p.key) \o <<"=">> \o QueryEscape(p.val)
         IN IF Len(values) = 1 THEN piece
            ELSE piece \o <<"&">> \o ValuesEncode(Tail(values))

\* The URLs of http.NewRequest (122, 172) carry no query.
BaseRawQuery == <<>>

\* query := req.URL.Query(); query.Set("q", term); query.Encode()
BuildRawQuery(t) == ValuesEncode(ValuesSet(ParseQuery(BaseRawQuery), <<"q">>, t))

(***************************************************************************)
(* encoding/json: the response body and its decoding into searchResult     *)
(* (src/main.go 113-119, 143-150 and 163-169, 193-200).                    *)
(*                                                                         *)
(* A JSON value is [t, s, kids]: t its type, s the text of a string or a   *)
(* number, kids the elements of an array or the members of an object, in   *)
(* the order of the text, each [k |-> member name, v |-> value].           *)
(***************************************************************************)
JNull == [t |-> "null", s |-> "", kids |-> <<>>]
JStr(x) == [t |-> "str", s |-> x, kids |-> <<>>]
JNum(x) == [t |-> "num", s |-> x, kids |-> <<>>]
Member(k, v) == [k |-> k, v |-> v]
JObj(members) == [t |-> "obj", s |-> "", kids |-> members]
JArr(elems) == [t |-> "arr", s |-> "",
                kids |-> [i \in 1..Len(elems) |-> Member(<<>>, elems[i])]]

\* A body: text that is no JSON value (syntax = "bad"), or the first JSON
\* value of the text, which is all that Decoder.Decode reads.
BadBody == [syntax |-> "bad", val |-> JNull]
Body(v) == [syntax |-> "ok", val |-> v]

\* The struct tags: json:"items" (118, 168), json:"full_Name" (114),
\* json:"login" (164).
ItemsTag == <<"i","t","e","m","s">>
repoTag == <<"f","u","l","l","_","N","a","m","e">>
userTag == <<"l","o","g","i","n">>

ToLower(c) == IF \E i \in 1..Len(Uppers) : Uppers[i] = c
              THEN Lowers[CHOOSE i \in 1..Len(Uppers) : Uppers[i] = c]
              ELSE c

\* strings.EqualFold on ASCII text.
EqualFold(a, b) ==
    /\ Len(a) = Len(b)
    /\ \A i \in 1..Len(a) : ToLower(a[i]) = ToLower(b[i])

FieldMatches_Exact(key, tag) == key = tag

\* encoding/json finds the field of a member name by its tag, exactly or
\* else ignoring case.
FieldMatches(key, tag) == key = tag \/ EqualFold(key, tag)

\* A value decoded into a string field: a string is stored, null leaves
\* the field as it is, anything else is an UnmarshalTypeError.
DecodeString(cur, v) ==
    CASE v.t = "str"  -> [val |-> v.s, err |-> FALSE]
      [] v.t = "null" -> [val |-> cur, err |-> FALSE]
      [] OTHER        -> [val |-> cur, err |-> TRUE]

RECURSIVE DecodeMembers(_, _, _)
\* The members of an object decoded, in order, into a struct whose one
\* field has the tag: members of other names are skipped.  A type error is
\* kept and the decoding goes on.
DecodeMembers(tag, members, cur) ==
    IF members = <<>> THEN [val |-> cur, err |-> FALSE]
    ELSE LET m == Head(members)
             r == IF FieldMatches(m.k, tag) THEN DecodeString(cur, m.v)
                  ELSE [val |-> cur, err |-> FALSE]
             rest == DecodeMembers(tag, Tail(members), r.val)
         IN [val |-> rest.val, err |-> r.err \/ rest.err]

DecodeItem_Strict(tag, v, cur) ==
    IF v.t = "obj" /\ \E i \in 1..Len(v.kids) : FieldMatches(v.kids[i].k, tag)
    THEN DecodeMembers(tag, v.kids, cur)
    ELSE [val |-> cur, err |-> TRUE]

\* A value decoded into a repo / user struct, held as its one field.
DecodeItem(tag, v, cur) ==
    CASE v.t = "obj"  -> DecodeMembers(tag, v.kids, cur)
      [] v.t = "null" -> [val |-> cur, err |-> FALSE]
      [] OTHER        -> [val |-> cur, err |-> TRUE]

RECURSIVE DecodeElems(_, _, _, _)
\* The elements of an array decoded into a slice: element i is decoded into
\* the slice's element i where it has one and into a new zero struct where
\* it has not.
DecodeElems(tag, elems, cur, i) ==
    IF i > Len(elems) THEN [val |-> <<>>, err |-> FALSE]
    ELSE LET r == DecodeItem(tag, elems[i].v,
                             IF i <= Len(cur) THEN cur[i] ELSE "")
             rest == DecodeElems(tag, elems, cur, i + 1)
         IN [val |-> <<r.val>> \o rest.val, err |-> r.err \/ rest.err]

\* A value decoded into Items: an array fills the slice, null makes it
\* nil, anything else is an UnmarshalTypeError.
DecodeItems(tag, v, cur) ==
    CASE v.t = "arr"  -> DecodeElems(tag, v.kids, cur, 1)
      [] v.t = "null" -> [val |-> <<>>, err |-> FALSE]
      [] OTHER        -> [val |-> cur, err |-> TRUE]

RECURSIVE DecodeEnvelopeMembers(_, _, _)
DecodeEnvelopeMembers(tag, members, cur) ==
    IF members = <<>> THEN [val |-> cur, err |-> FALSE]
    ELSE LET m == Head(members)
             r == IF FieldMatches(m.k, ItemsTag) THEN DecodeItems(tag, m.v, cur)
                  ELSE [val |-> cur, err |-> FALSE]
             rest == DecodeEnvelopeMembers(tag, Tail(members), r.val)
         IN [val |-> rest.val, err |-> r.err \/ rest.err]

Decode_ItemsRequired(tag, body) ==
    IF body.syntax # "ok" THEN [items |-> <<>>, err |-> "syntax"]
    ELSE IF body.val.t = "obj"
            /\ \E i \in 1..Len(body.val.kids) :
                   FieldMatches(body.val.kids[i].k, ItemsTag)
                   /\ body.val.kids[i].v.t = "arr"
    THEN LET r == DecodeEnvelopeMembers(tag, body.val.kids, <<>>)
         IN [items |-> r.val, err |-> IF r.err THEN "type" ELSE ""]
    ELSE [items |-> <<>>, err |-> "type"]

\* json.NewDecoder(res.Body).Decode(&results), results a zero searchResult:
\* items is results.Items, err "" for a nil error, else the error's kind.
Decode(tag, body) ==
    IF body.syntax # "ok" THEN [items |-> <<>>, err |-> "syntax"]
    ELSE CASE body.val.t = "obj" ->
                LET r == DecodeEnvelopeMembers(tag, body.val.kids, <<>>)
                IN [items |-> r.val, err |-> IF r.err THEN "type" ELSE ""]
           [] body.val.t = "null" -> [items |-> <<>>, err |-> ""]
           [] OTHER -> [items |-> <<>>, err |-> "type"]

(***************************************************************************)
(* findRepos and findUsers, from the answer of http.DefaultClient.Do on    *)
(* (src/main.go 133-159 and 183-209).                                      *)
(***************************************************************************)
ErrConnect == "failed to connect to github"

\* A []string: nil, or the elements.
NilSlice == [nil |-> TRUE, elems |-> <<>>]
Slice(elems) == [nil |-> FALSE, elems |-> elems]

\* What Do returned: an error (transport), or a response.
TransportError == [transport |-> TRUE, status |-> 0, body |-> BadBody]
Response(status, body) == [transport |-> FALSE, status |-> status, body |-> body]
NoResponse == [transport |-> FALSE, status |-> 0, body |-> BadBody]

StatusOK_Inclusive(code) == ~(code < 200 \/ code > 300)

\* The negation of: res.StatusCode < 200 || res.StatusCode >= 300
StatusOK(code) == ~(code < 200 \/ code >= 300)

RECURSIVE Extract_Prepend(_, _)
Extract_Prepend(items, repos) ==
    IF items = <<>> THEN repos
    ELSE Extract_Prepend(Tail(items), <<Head(items)>> \o repos)

RECURSIVE Extract(_, _)
\* for _, r := range results.Items { repos = append(repos, r.FullName) }
Extract(items, repos) ==
    IF items = <<>> THEN repos
    ELSE Extract(Tail(items), Append(repos, Head(items)))

\* The two functions differ in the URL and in the struct tag only.  dbg is
\* what is handed to printDebug.
find(tag, r) ==
    IF r.transport
    THEN [results |-> NilSlice, err |-> ErrConnect, dbg |-> <<"transport error">>]
    ELSE IF ~StatusOK(r.status)
    THEN [results |-> NilSlice, err |-> ErrConnect, dbg |-> <<>>]
    ELSE LET d == Decode(tag, r.body)
         IN IF d.err # ""
            THEN [results |-> NilSlice, err |-> ErrConnect,
                  dbg |-> <<"json: " \o d.err \o " error">>]
            ELSE [results |-> Slice(Extract(d.items, <<>>)), err |-> "",
                  dbg |-> <<>>]

findRepos_Telling(r) ==
    LET f == find(repoTag, r)
    IN IF ~r.transport /\ StatusOK(r.status) /\ f.err # ""
       THEN [f EXCEPT !.err = "failed to decode the answer of github"]
       ELSE f

findRepos(r) == find(repoTag, r)

findUsers(r) == find(userTag, r)

NoReturn == [results |-> NilSlice, err |-> "", dbg |-> <<>>]

(***************************************************************************)
(* package flag: FlagSet.Parse with flag.ExitOnError (src/main.go 34, 66,  *)
(* 90).                                                                    *)
(***************************************************************************)
DebugName == <<"d","e","b","u","g">>
HelpNames == {<<"h">>, <<"h","e","l","p">>}

TrueTexts == {<<"1">>, <<"t">>, <<"T">>, <<"T","R","U","E">>,
              <<"t","r","u","e">>, <<"T","r","u","e">>}
FalseTexts == {<<"0">>, <<"f">>, <<"F">>, <<"F","A","L","S","E">>,
               <<"f","a","l","s","e">>, <<"F","a","l","s","e">>}

RECURSIVE FlagParse(_, _, _)
\* FlagSet.Parse(args) of a flag set that defines -debug (hasDebug) or no
\* flag at all; dbg is the value of debug so far.  outcome is "ok" with
\* the arguments left over in rest, "help" for flag.ErrHelp, or "error"
\* with the message of the error.
FlagParse(args, hasDebug, dbg) ==
    LET Ok(rest) == [outcome |-> "ok", rest |-> rest, debug |-> dbg, msg |-> ""]
        Fail(m) == [outcome |-> "error", rest |-> <<>>, debug |-> dbg, msg |-> m]
    IN
    IF args = <<>> THEN Ok(<<>>)
    ELSE LET s == Head(args) IN
    IF Len(s) < 2 \/ s[1] # "-" THEN Ok(args)
    ELSE LET numMinuses == IF s[2] = "-" THEN 2 ELSE 1 IN
    IF numMinuses = 2 /\ Len(s) = 2 THEN Ok(Tail(args))
    ELSE LET full == SubSeq(s, numMinuses + 1, Len(s)) IN
    IF full = <<>> \/ full[1] = "-" \/ full[1] = "="
    THEN Fail("bad flag syntax: " \o Str(s))
    ELSE LET eq == IF \E i \in 2..Len(full) : full[i] = "="
                   THEN CHOOSE i \in 2..Len(full) :
                            full[i] = "=" /\ \A j \in 2..(i - 1) : full[j] # "="
                   ELSE 0
             hasValue == eq # 0
             name == IF hasValue THEN SubSeq(full, 1, eq - 1) ELSE full
             value == IF hasValue THEN SubSeq(full, eq + 1, Len(full)) ELSE <<>>
         IN
    IF ~(hasDebug /\ name = DebugName)
    THEN IF name \in HelpNames
         THEN [outcome |-> "help", rest |-> <<>>, debug |-> dbg, msg |-> ""]
         ELSE Fail("flag provided but not defined: -" \o Str(name))
    ELSE IF hasValue /\ value \notin TrueTexts \cup FalseTexts
    THEN Fail("invalid boolean value \"" \o Str(value) \o "\" for -" \o Str(name)
              \o ": parse error")
    ELSE FlagParse(Tail(args), hasDebug, IF hasValue THEN value \in TrueTexts ELSE TRUE)

\* What ExitOnError writes to standard error before os.Exit.
FlagStderr(p, name) ==
    IF p.outcome = "error" THEN <<p.msg, "Usage of " \o name \o ":">>
    ELSE <<"Usage of " \o name \o ":">>

\* os.Exit(0) for flag.ErrHelp, os.Exit(2) for any other error.
FlagExitCode(p) == IF p.outcome = "help" THEN 0 ELSE 2

(***************************************************************************)
(* The program (src/main.go 25-110, 211-215).                              *)
(***************************************************************************)
usage == "Specify a command to execute:\n  - search-repos: Search for github repos\n  - search-users: Serach for users on github."

SearchRepos == <<"s","e","a","r","c","h","-","r","e","p","o","s">>
SearchUsers == <<"s","e","a","r","c","h","-","u","s","e","r","s">>

NoTermError == "provide a search term for searching repos: search-repos <search_term>"
PanicMessage == "panic: runtime error: index out of range [0] with length 0"

\* printDebug(msg), as the lines of standard output after it.
printDebug(out, msg, on) == IF on THEN Append(out, "[DEBUG]: " \o msg) ELSE out

RECURSIVE printDebugAll(_, _, _)
printDebugAll(out, msgs, on) ==
    IF msgs = <<>> THEN out
    ELSE printDebugAll(printDebug(out, Head(msgs), on), Tail(msgs), on)

\* os.Exit(code)
Exit(code) == pc' = "exited" /\ exitCode' = code

\* main, 34-39: flag.Parse() and the check of len(os.Args).
mainParse ==
    /\ pc = "start"
    /\ LET p == FlagParse(Tail(osArgs), TRUE, FALSE) IN
       IF p.outcome # "ok"
       THEN /\ stderr' = stderr \o FlagStderr(p, Str(osArgs[1]))
            /\ Exit(FlagExitCode(p))
            /\ debug' = p.debug
            /\ UNCHANGED <<flagArgs, stdout>>
       ELSE /\ debug' = p.debug
            /\ flagArgs' = p.rest
            /\ IF Len(osArgs) < 2
               THEN /\ stdout' = Append(stdout, usage)
                    /\ Exit(1)
               ELSE /\ pc' = "command"
                    /\ UNCHANGED <<stdout, exitCode>>
            /\ UNCHANGED stderr
    /\ UNCHANGED <<osArgs, kind, term, rawQuery, httpCalls, res, ret, cmdErr>>

\* main, 41-43, and executeCommand, 50-62, up to the call it dispatches to.
mainCommand ==
    /\ pc = "command"
    /\ IF flagArgs = <<>>
       THEN \* flag.Args()[0] of an empty slice: a run-time panic
            /\ stderr' = Append(stderr, PanicMessage)
            /\ Exit(2)
            /\ UNCHANGED <<stdout, kind, cmdErr>>
       ELSE LET command == flagArgs[1]
                args == Tail(flagArgs)
                out == printDebug(printDebug(stdout,
                                      "Command: " \o Str(command), debug),
                                  "Args: " \o FmtSlice(args), debug)
            IN /\ stdout' = out
               /\ CASE command = SearchRepos ->
                         kind' = "repos" /\ pc' = "searchRepos" /\ UNCHANGED cmdErr
                    [] command = SearchUsers ->
                         kind' = "users" /\ pc' = "searchUsers" /\ UNCHANGED cmdErr
                    [] OTHER ->
                         /\ cmdErr' = "invalid command: '" \o Str(command) \o "'"
                         /\ pc' = "return"
                         /\ UNCHANGED kind
               /\ UNCHANGED <<stderr, exitCode>>
    /\ UNCHANGED <<osArgs, debug, flagArgs, term, rawQuery, httpCalls, res, ret>>

\* executeSearchRepos, 64-78, and executeSearchUsers, 88-102, with the part
\* of findRepos, 121-133, and findUsers, 171-183, that builds the request
\* and hands it to http.DefaultClient.Do.  (http.NewRequest does not fail
\* for the method and the URLs written in the code.)
executeSearch(at) ==
    /\ pc = at
    /\ LET p == FlagParse(Tail(flagArgs), FALSE, FALSE) IN
       IF p.outcome # "ok"
       THEN /\ stderr' = stderr \o FlagStderr(p, "search-repos")
            /\ Exit(FlagExitCode(p))
            /\ UNCHANGED <<stdout, term, rawQuery, httpCalls, cmdErr>>
       ELSE LET out == printDebug(stdout,
                           "[search-repos] Args: " \o FmtSlice(p.rest), debug)
            IN IF Len(p.rest) = 0
               THEN /\ cmdErr' = NoTermError
                    /\ pc' = "return"
                    /\ stdout' = out
                    /\ UNCHANGED <<term, rawQuery, httpCalls, stderr, exitCode>>
               ELSE /\ term' = p.rest[1]
                    /\ stdout' = printDebug(out,
                           "[search-repos] Search Term: " \o Str(p.rest[1]), debug)
                    /\ rawQuery' = BuildRawQuery(p.rest[1])
                    /\ httpCalls' = httpCalls + 1
                    /\ pc' = "request"
                    /\ UNCHANGED <<cmdErr, stderr, exitCode>>
    /\ UNCHANGED <<osArgs, debug, flagArgs, kind, res, ret>>

executeSearchRepos == executeSearch("searchRepos")

executeSearchUsers == executeSearch("searchUsers")

(***************************************************************************)
(* The answers of the server in the model.                                 *)
(***************************************************************************)
FullNameKey == <<"f","u","l","l","_","n","a","m","e">>   \* as the API sends it
LoginKey == <<"l","o","g","i","n">>
IdKey == <<"i","d">>
ItemsKey == <<"i","t","e","m","s">>
ItemsKeyUpper == <<"I","t","e","m","s">>
TotalCountKey == <<"t","o","t","a","l","_","c","o","u","n","t">>

StringMembers == {Member(FullNameKey, JStr("golang/go")),
                  Member(FullNameKey, JStr("golang/tools")),
                  Member(LoginKey, JStr("torvalds")),
                  Member(LoginKey, JStr("octocat"))}
OtherMembers == {Member(IdKey, JNum("7")),
                 Member(FullNameKey, JNum("7")),
                 Member(LoginKey, JNull)}

\* The items of the answers: objects of no, one and two members, and two
\* values that are no objects.
ItemValues ==
    {JNull, JStr("golang/go"), JObj(<<>>)}
    \cup {JObj(<<m>>) : m \in StringMembers \cup OtherMembers}
    \cup {JObj(<<m, n>>) : m \in StringMembers, n \in StringMembers \cup {Member(IdKey, JNum("7"))}}

ItemLists == SeqsUpTo(ItemValues, MaxItems)

\* Envelopes name `items` at most once.
OddBodies ==
    {BadBody, Body(JNull), Body(JStr("items")), Body(JArr(<<>>)),
     Body(JObj(<<>>)),
     Body(JObj(<<Member(TotalCountKey, JNum("0"))>>)),
     Body(JObj(<<Member(ItemsKey, JNull)>>)),
     Body(JObj(<<Member(ItemsKey, JStr("golang/go"))>>)),
     Body(JObj(<<Member(ItemsKey, JObj(<<>>))>>)),
     Body(JObj(<<Member(ItemsKeyUpper,
                        JArr(<<JObj(<<Member(LoginKey, JStr("octocat"))>>)>>))>>))}

Envelope(items) == Body(JObj(<<Member(TotalCountKey, JNum("2")),
                               Member(ItemsKey, JArr(items))>>))

Bodies == OddBodies \cup {Envelope(items) : items \in ItemLists}

RepoGo == JObj(<<Member(FullNameKey, JStr("golang/go"))>>)
RepoTools == JObj(<<Member(FullNameKey, JStr("golang/tools"))>>)
UserTorvalds == JObj(<<Member(LoginKey, JStr("torvalds"))>>)

\* The bodies of the runs of the whole program.
RunBodies ==
    {BadBody, Body(JObj(<<>>)),
     Body(JObj(<<Member(ItemsKey, JStr("golang/go"))>>)),
     Envelope(<<>>), Envelope(<<RepoGo, RepoTools>>), Envelope(<<UserTorvalds>>),
     Envelope(<<JObj(<<>>), UserTorvalds>>)}

Statuses == {199, 200, 299, 300, 404, 500}

\* http.DefaultClient.Do returns an error.
doFails ==
    /\ pc = "request"
    /\ res' = TransportError
    /\ pc' = "responded"
    /\ UNCHANGED <<osArgs, debug, flagArgs, kind, term, rawQuery, httpCalls,
                   ret, stdout, stderr, cmdErr, exitCode>>

\* http.DefaultClient.Do returns a response.
doResponds ==
    /\ pc = "request"
    /\ \E status \in Statuses, body \in RunBodies : res' = Response(status, body)
    /\ pc' = "responded"
    /\ UNCHANGED <<osArgs, debug, flagArgs, kind, term, rawQuery, httpCalls,
                   ret, stdout, stderr, cmdErr, exitCode>>

findReturns(f) ==
    /\ ret' = f
    /\ stdout' = printDebugAll(stdout, f.dbg, debug)
    /\ pc' = "found"
    /\ UNCHANGED <<osArgs, debug, flagArgs, kind, term, rawQuery, httpCalls,
                   res, stderr, cmdErr, exitCode>>

\* findRepos, 134-159, from the return of Do on.
findReposReturns == pc = "responded" /\ kind = "repos" /\ findReturns(findRepos(res))

\* findUsers, 184-209, from the return of Do on.
findUsersReturns == pc = "responded" /\ kind = "users" /\ findReturns(findUsers(res))

executeSearchReturns_Retry ==
    /\ pc = "found"
    /\ IF ret.err # ""
       THEN /\ httpCalls < 3
            /\ httpCalls' = httpCalls + 1
            /\ pc' = "request"
            /\ UNCHANGED <<stdout, cmdErr>>
       ELSE /\ cmdErr' = ""
            /\ stdout' = Append(stdout, JoinWith(ret.results.elems, ", "))
            /\ pc' = "return"
            /\ UNCHANGED httpCalls
    /\ UNCHANGED <<osArgs, debug, flagArgs, kind, term, rawQuery,
                   res, ret, stderr, exitCode>>

\* executeSearchRepos, 78-85, and executeSearchUsers, 102-109: the error is
\* handed on, or the results are printed.
executeSearchReturns ==
    /\ pc = "found"
    /\ IF ret.err # ""
       THEN cmdErr' = ret.err /\ UNCHANGED stdout
       ELSE /\ cmdErr' = ""
            /\ stdout' = Append(stdout, JoinWith(ret.results.elems, ", "))
    /\ pc' = "return"
    /\ UNCHANGED <<osArgs, debug, flagArgs, kind, term, rawQuery, httpCalls,
                   res, ret, stderr, exitCode>>

\* main, 44-48: the error is printed and the exit status is 1, or main
\* returns.
mainReturns ==
    /\ pc = "return"
    /\ IF cmdErr # ""
       THEN stdout' = Append(stdout, cmdErr) /\ Exit(1)
       ELSE UNCHANGED stdout /\ Exit(0)
    /\ UNCHANGED <<osArgs, debug, flagArgs, kind, term, rawQuery, httpCalls,
                   res, ret, stderr, cmdErr>>

(***************************************************************************)
(* The runs of the program, over the argument vectors of the model.        *)
(***************************************************************************)
Program == <<"c","l","i">>
DebugFlag == <<"-","d","e","b","u","g">>
DebugOff == <<"-","d","e","b","u","g","=","0">>
DashDash == <<"-","-">>
HelpFlag == <<"-","h">>
UndefinedFlag == <<"-","x">>
TermA == <<"a">>
TermAmp == <<"a"," ","&","q">>

ArgTokens == {DebugFlag, DebugOff, DashDash, HelpFlag, UndefinedFlag,
              SearchRepos, SearchUsers, TermA, TermAmp}

Init ==
    /\ osArgs \in {<<Program>> \o a : a \in SeqsUpTo(ArgTokens, MaxArgs)}
    /\ debug = FALSE
    /\ pc = "start"
    /\ flagArgs = <<>>
    /\ kind = "none"
    /\ term = <<>>
    /\ rawQuery = <<>>
    /\ httpCalls = 0
    /\ res = NoResponse
    /\ ret = NoReturn
    /\ stdout = <<>>
    /\ stderr = <<>>
    /\ cmdErr = ""
    /\ exitCode = 0

Next ==
    \/ mainParse
    \/ mainCommand
    \/ executeSearchRepos
    \/ executeSearchUsers
    \/ doFails
    \/ doResponds
    \/ findReposReturns
    \/ findUsersReturns
    \/ executeSearchReturns
    \/ mainReturns

Spec == Init /\ [][Next]_vars

(***************************************************************************)
(* The decoding alone: the runs from the return of Do on, over all the     *)
(* bodies of the model, the status being 200.                              *)
(***************************************************************************)
InitDecode ==
    /\ kind \in {"repos", "users"}
    /\ osArgs = <<Program, IF kind = "repos" THEN SearchRepos ELSE SearchUsers, TermA>>
    /\ debug = FALSE
    /\ pc = "responded"
    /\ flagArgs = Tail(osArgs)
    /\ term = TermA
    /\ rawQuery = BuildRawQuery(TermA)
    /\ httpCalls = 1
    /\ res \in {Response(200, b) : b \in Bodies}
    /\ ret = NoReturn
    /\ stdout = <<>>
    /\ stderr = <<>>
    /\ cmdErr = ""
    /\ exitCode = 0

NextDecode == findReposReturns \/ findUsersReturns

SpecDecode == InitDecode /\ [][NextDecode]_vars

(***************************************************************************)
(* The query alone: the runs of executeSearchRepos and executeSearchUsers  *)
(* up to the request, over all the search terms of the model.              *)
(***************************************************************************)
TermChars == {"a", "q", " ", "&", "=", "%", "+"}
Terms == SeqsUpTo(TermChars, MaxTermLen)

InitQuery ==
    /\ kind \in {"repos", "users"}
    /\ term = <<>>
    /\ \E t \in Terms :
          osArgs = <<Program, IF kind = "repos" THEN SearchRepos ELSE SearchUsers, t>>
    /\ debug = FALSE
    /\ pc = IF kind = "repos" THEN "searchRepos" ELSE "searchUsers"
    /\ flagArgs = Tail(osArgs)
    /\ rawQuery = <<>>
    /\ httpCalls = 0
    /\ res = NoResponse
    /\ ret = NoReturn
    /\ stdout = <<>>
    /\ stderr = <<>>
    /\ cmdErr = ""
    /\ exitCode = 0

NextQuery == executeSearchRepos \/ executeSearchUsers

SpecQuery == InitQuery /\ [][NextQuery]_vars

(***************************************************************************)
(* What the properties below read off a state.                             *)
(***************************************************************************)
Last(seq) == seq[Len(seq)]

\* findRepos / findUsers has returned, to a 2xx response where Answered2xx.
FindReturned == httpCalls > 0 /\ pc \in {"found", "return", "exited"}
Answered2xx == FindReturned /\ ~res.transport /\ res.status \in 200..299

Failure == [results |-> NilSlice, err |-> ErrConnect]
Returned == [results |-> ret.results, err |-> ret.err]

\* The key the API sends for the kind of the search.
KeyOf(k) == IF k = "repos" THEN FullNameKey ELSE LoginKey

IsObject(body) == body.syntax = "ok" /\ body.val.t = "obj"
Named(body, keys) == {i \in 1..Len(body.val.kids) : body.val.kids[i].k \in keys}
ItemsSpellings == {ItemsKey, ItemsKeyUpper}

\* The body is an object with a list under one of the keys; ItemsOf: the
\* list.
HasList(body, keys) ==
    /\ IsObject(body)
    /\ \E i \in Named(body, keys) : body.val.kids[i].v.t = "arr"
ListOf(body, keys) ==
    LET i == CHOOSE i \in Named(body, keys) : body.val.kids[i].v.t = "arr"
        elems == body.val.kids[i].v.kids
    IN [j \in 1..Len(elems) |-> elems[j].v]

\* `items` as the API spells it.
HasItemsList(body) == HasList(body, {ItemsKey})
ItemsOf(body) == ListOf(body, {ItemsKey})

\* The members of an item that have the key, and the text of the last one
\* that is a string ("" when there is none).
Keyed(item, key) == {i \in 1..Len(item.kids) : item.kids[i].k = key}
KeyedStrings(item, key) == {i \in Keyed(item, key) : item.kids[i].v.t = "str"}
Max(S) == CHOOSE x \in S : \A y \in S : y <= x
FieldOf(item, key) ==
    IF KeyedStrings(item, key) = {} THEN ""
    ELSE item.kids[Max(KeyedStrings(item, key))].v.s

\* The item is an object and what it has under the key are strings.
WellFormed(item, key) ==
    item.t = "obj" /\ Keyed(item, key) = KeyedStrings(item, key)

\* C1: a repository search whose 2xx answer is an envelope in which every
\* item carries `full_name`, spelled as the API spells it, returns exactly
\* those values, in order and without an error.
C1_FullNamesReturned ==
    (/\ Answered2xx /\ kind = "repos" /\ HasItemsList(res.body)
     /\ \A i \in 1..Len(ItemsOf(res.body)) :
            /\ WellFormed(ItemsOf(res.body)[i], FullNameKey)
            /\ Keyed(ItemsOf(res.body)[i], FullNameKey) # {})
    => /\ ret.err = ""
       /\ ret.results = Slice([i \in 1..Len(ItemsOf(res.body)) |->
                                  FieldOf(ItemsOf(res.body)[i], FullNameKey)])

C1_Witness ==
    /\ pc = "found" /\ kind = "repos"
    /\ res = Response(200, Envelope(<<RepoGo, RepoTools>>))
    /\ ret.results = Slice(<<"golang/go", "golang/tools">>)

\* C2: a search that returns without an error returns a non-nil sequence
\* with one string for every item of the envelope, the i-th being the field
\* of the i-th item; an empty list of items gives the empty sequence and no
\* error.
C2_OrderPreserved ==
    LET items == IF HasList(res.body, ItemsSpellings)
                 THEN ListOf(res.body, ItemsSpellings) ELSE <<>>
    IN /\ (FindReturned /\ ret.err = "")
           => /\ ~ret.results.nil
              /\ Len(ret.results.elems) = Len(items)
              /\ \A i \in 1..Len(items) :
                     ret.results.elems[i] = FieldOf(items[i], KeyOf(kind))
       /\ (Answered2xx /\ HasList(res.body, ItemsSpellings) /\ items = <<>>)
           => Returned = [results |-> Slice(<<>>), err |-> ""]

C2_Witness ==
    /\ pc = "found" /\ ret.err = ""
    /\ Len(ret.results.elems) = 2
    /\ ret.results.elems[1] # ret.results.elems[2]
    /\ ret.results.elems[1] # "" /\ ret.results.elems[2] # ""

\* C3, as claimed: a 2xx answer whose body is no JSON, or an object without
\* `items`, or an object whose `items` is no list, makes the search return
\* the error and no results.
C3_MissingItemsFails ==
    (/\ Answered2xx
     /\ \/ res.body.syntax = "bad"
        \/ IsObject(res.body) /\ Named(res.body, ItemsSpellings) = {}
        \/ IsObject(res.body) /\ \E i \in Named(res.body, ItemsSpellings) :
                                      res.body.val.kids[i].v.t # "arr")
    => Returned = Failure

\* C3, amended: a 2xx answer whose body is no JSON, or an object whose
\* `items` is neither a list nor null, makes the search return the error
\* and no results; an object without `items`, or with `items` null, makes
\* it return the empty sequence and no error.
C3_BadItemsFails ==
    /\ (/\ Answered2xx
        /\ \/ res.body.syntax = "bad"
           \/ IsObject(res.body) /\ \E i \in Named(res.body, ItemsSpellings) :
                          res.body.val.kids[i].v.t \notin {"arr", "null"})
       => Returned = Failure
    /\ (/\ Answered2xx /\ IsObject(res.body)
        /\ \A i \in Named(res.body, ItemsSpellings) :
               res.body.val.kids[i].v.t = "null")
       => Returned = [results |-> Slice(<<>>), err |-> ""]

C3_Witness ==
    /\ pc = "found" /\ res = Response(200, Body(JObj(<<>>)))
    /\ ret.err = "" /\ ret.results.elems = <<>>

\* C4: a response whose status is outside [200,300) makes the search return
\* the error and no results, whatever its body; no result line is printed.
C4_BadStatusFails ==
    (FindReturned /\ ~res.transport /\ res.status \notin 200..299)
    => /\ Returned = Failure
       /\ pc \in {"return", "exited"} => cmdErr = ErrConnect
       /\ pc = "exited" =>
             exitCode = 1 /\ \A i \in 1..Len(stdout) : stdout[i] # "golang/go, golang/tools"

C4_Witness ==
    /\ pc = "exited" /\ res = Response(300, Envelope(<<RepoGo, RepoTools>>))
    /\ kind = "repos" /\ Last(stdout) = ErrConnect

\* C5: in an envelope whose items are objects, an item without the field
\* gives "" at its position, the other items give their values, and the
\* search returns no error.
C5_MissingFieldIsEmpty ==
    (/\ Answered2xx /\ HasItemsList(res.body)
     /\ \A i \in 1..Len(ItemsOf(res.body)) :
            WellFormed(ItemsOf(res.body)[i], KeyOf(kind)))
    => /\ ret.err = ""
       /\ Len(ret.results.elems) = Len(ItemsOf(res.body))
       /\ \A i \in 1..Len(ItemsOf(res.body)) :
              LET item == ItemsOf(res.body)[i]
              IN IF Keyed(item, KeyOf(kind)) = {}
                 THEN ret.results.elems[i] = ""
                 ELSE ret.results.elems[i] = FieldOf(item, KeyOf(kind))

C5_Witness ==
    /\ pc = "found" /\ kind = "users"
    /\ res = Response(200, Envelope(<<JObj(<<>>), UserTorvalds>>))
    /\ ret.results.elems = <<"", "torvalds">> /\ ret.err = ""

\* C6: a transport error, a bad status and a body that does not decode all
\* make the search return the same error and a nil sequence; a search
\* returns either that, or no error and a sequence that is not nil.
C6_OneFailure ==
    FindReturned =>
       /\ \/ Returned = Failure
          \/ ret.err = "" /\ ~ret.results.nil
       /\ res.transport => Returned = Failure
       /\ (~res.transport /\ res.status \notin 200..299) => Returned = Failure
       /\ (Answered2xx /\ res.body.syntax = "bad") => Returned = Failure
       /\ pc \in {"return", "exited"} => cmdErr = ret.err

C6_Witness ==
    /\ pc = "return" /\ kind = "repos" /\ res = Response(200, BadBody)
    /\ ret.err = ErrConnect /\ ret.results.nil

\* The run was ended by the flag package (ExitOnError), not by main.
EndedByFlagPackage ==
    pc = "exited" /\ stderr # <<>> /\ Last(stderr) # PanicMessage

\* C7, for the runs that the flag package does not end itself: a run ends
\* with the joined results as the last line of standard output and the
\* status 0, or with an error message as the last line of standard output,
\* no results and a status that is not 0.
C7_TwoEndings ==
    (pc = "exited" /\ ~EndedByFlagPackage) =>
       \/ /\ exitCode = 0
          /\ httpCalls = 1 /\ ret.err = ""
          /\ stdout # <<>> /\ Last(stdout) = JoinWith(ret.results.elems, ", ")
       \/ /\ exitCode # 0
          /\ httpCalls = 0 \/ ret.err # ""
          /\ stdout # <<>>
          /\ \/ Last(stdout) = usage
             \/ cmdErr # "" /\ Last(stdout) = cmdErr

\* C8: a run calls http.DefaultClient.Do at most once, and not at all for
\* an invalid command or a missing search term; a run that called it is at
\* a position whose step has no other guard (the answer of Do, the return
\* of findRepos / findUsers, of executeSearch*, of main) until it has
\* exited, and ends with the results or the error as its last line.
C8_AtMostOneRequest ==
    /\ httpCalls <= 1
    /\ (httpCalls = 1 /\ pc # "exited") =>
          /\ pc \in {"request", "responded", "found", "return"}
          /\ kind \in {"repos", "users"}
    /\ cmdErr \notin {"", ErrConnect} => httpCalls = 0
    /\ (pc = "exited" /\ httpCalls = 1) =>
          /\ stdout # <<>>
          /\ \/ exitCode = 0 /\ Last(stdout) = JoinWith(ret.results.elems, ", ")
             \/ exitCode = 1 /\ Last(stdout) = ErrConnect

C8_Witness ==
    /\ pc = "exited" /\ httpCalls = 1 /\ res.transport /\ exitCode = 1

\* C9: the query of the request sent has the one parameter q, and its
\* unescaped value is the search term given on the command line.
C9_QueryCarriesTerm ==
    pc = "request" =>
       /\ term = osArgs[3]
       /\ ParseQuery(rawQuery) = <<[key |-> <<"q">>, val |-> term]>>

C9_Witness ==
    /\ pc = "request" /\ term = <<"&", "q", "=", " ">>
    /\ rawQuery = <<"q","=","%","2","6","q","%","3","D","+">>

\* C10: a run whose flags no sub-command follows prints the usage text and
\* exits with the status 1, and writes nothing else.
C10_UsageWithoutCommand ==
    LET p == FlagParse(Tail(osArgs), TRUE, FALSE)
    IN (pc = "exited" /\ p.outcome = "ok" /\ p.rest = <<>>)
       => stdout = <<usage>> /\ exitCode = 1 /\ stderr = <<>>

====
